---- MODULE Spec2Model ----
(***************************************************************************)
(* Event indexer and cache coordinator of NormiesArchive.                  *)
(*                                                                         *)
(* src/lib/indexer.ts holds two revisions of the indexer:                  *)
(*   lines   1-502  the blob-backed coordinator (loadMemCache, getCache,   *)
(*                  runFullScan, runIncrementalScan) fed by the cron       *)
(*                  handler src/app/api/cron/index/route.ts through the    *)
(*                  blob store (src/lib/sound.ts 306-405);                 *)
(*   lines 504-902  the scanning coordinator (doFullScan, getCache).       *)
(*                                                                         *)
(* Block numbers, the chunk size and the TTL are scaled down; payload      *)
(* fields the code only copies (changeCount, newPixelCount, transformer,   *)
(* totalActions, owner, added, removed, type) are left out.                *)
(***************************************************************************)
EXTENDS Integers, Sequences, FiniteSets, TLC

\* ------------------------------------------------------------------ bounds

MaxKey == 2
MaxBlock == 3
MaxTx == 2
MaxEvents == 2
MaxLevel == 1
MaxNow == 1
NumReaders == 2
NumCrons == 2
MaxRuns == 2
MaxWaveTo == 5

\* program constants, scaled
CANVAS_DEPLOY_BLOCK == 1
CHUNK_SIZE == 2
CACHE_TTL_MS == 1
PARALLEL_CHUNKS == 2

Keys == 1..MaxKey
Blocks == CANVAS_DEPLOY_BLOCK..MaxBlock
Levels == 1..MaxLevel
Readers == 1..NumReaders
Crons == 1..NumCrons
Runs == 1..MaxRuns

\* JavaScript null
Null == [null |-> TRUE]
\* a promise that has not settled, and one that rejected
Pending == [pending |-> TRUE]
Thrown == [thrown |-> TRUE]
\* no call is followed
NoCall == [fn |-> "none"]

VARIABLES
  chain,        \* the event source's log history, in the order it answers
  head,         \* the chain head (publicClient.getBlockNumber)
  now,          \* Date.now()
  blobEvents,   \* blob normies-index/events.json, Null when absent
  blobNormies,  \* blob normies-index/normies.json, Null when absent
  cron,         \* the running invocations of the cron GET handler
  design,       \* which revision of indexer.ts the process runs
  mem,          \* _mem (blob-backed coordinator)
  loadPromise,  \* _loadPromise is set
  loads,        \* the running executions of loadMemCache
  cache,        \* _cache (scanning coordinator)
  scanPromise,  \* _scanPromise is set
  scans,        \* the running executions of doFullScan
  rpc,          \* each reader of getCache: idle, or waiting on the promise
  got,          \* the value getCache last resolved to, until the caller takes it
  call          \* the scanRange or fetchWithRetry call followed step by step

storeVars == <<blobEvents, blobNormies>>
cronVars == <<cron>>
coordVars == <<mem, loadPromise, loads, cache, scanPromise, scans, rpc, got>>
vars == <<chain, head, now, blobEvents, blobNormies, cron, design,
          mem, loadPromise, loads, cache, scanPromise, scans, rpc, got, call>>

\* ------------------------------------------------------------ event source

\* One log of the chain: kind is the event (PixelsTransformed = "edit",
\* BurnRevealed = "burn"), tokenId is args.tokenId of an edit and
\* args.receiverTokenId of a burn.
Logs == [kind : {"edit", "burn"}, blockNumber : Blocks,
         transactionHash : 1..MaxTx, tokenId : Keys]

Range(s) == {s[i] : i \in 1..Len(s)}

RECURSIVE SeqsUpTo(_, _)
SeqsUpTo(S, n) ==
  IF n = 0 THEN {<<>>}
  ELSE LET shorter == SeqsUpTo(S, n - 1)
       IN shorter \cup {Append(s, x) : s \in {t \in shorter : Len(t) = n - 1}, x \in S}

\* A transaction lies in one block.
WellFormed(h) ==
  \A i, j \in 1..Len(h) :
    h[i].transactionHash = h[j].transactionHash => h[i].blockNumber = h[j].blockNumber

Histories == {h \in SeqsUpTo(Logs, MaxEvents) : WellFormed(h)}

\* publicClient.getLogs({event, fromBlock, toBlock}): the logs of one event
\* kind in the block range, in the order the source holds them.
GetLogs(h, kind, from, to) ==
  SelectSeq(h, LAMBDA l : l.kind = kind /\ from <= l.blockNumber /\ l.blockNumber <= to)

\* fetchChunk: the first successful query's logs, or [] once every attempt
\* has failed (failed = the chunks, by first block, whose attempts all fail).
FetchChunk(h, kind, from, to, failed) ==
  IF from \in failed THEN <<>> ELSE GetLogs(h, kind, from, to)

\* A chunk list whose chunks end one block late: each chunk but the last
\* shares a block with the next one.
RECURSIVE ChunksOverlapping(_, _)
ChunksOverlapping(from, to) ==
  IF from > to THEN <<>>
  ELSE <<<<from, IF from + CHUNK_SIZE < to THEN from + CHUNK_SIZE ELSE to>>>>
       \o ChunksOverlapping(from + CHUNK_SIZE, to)

\* scanRange's chunk list: [f, min(f + CHUNK_SIZE - 1, to)] for f = from,
\* from + CHUNK_SIZE, ... while f <= to.
RECURSIVE Chunks(_, _)
Chunks(from, to) ==
  IF from > to THEN <<>>
  ELSE <<<<from, IF from + CHUNK_SIZE - 1 < to THEN from + CHUNK_SIZE - 1 ELSE to>>>>
       \o Chunks(from + CHUNK_SIZE, to)

RECURSIVE Flatten(_)
Flatten(ss) == IF ss = <<>> THEN <<>> ELSE Head(ss) \o Flatten(Tail(ss))

\* scanRange: the chunks' results concatenated in chunk order.
ScanRange(h, kind, from, to, failed) ==
  IF from > to THEN <<>>
  ELSE LET chunks == Chunks(from, to)
       IN Flatten([i \in 1..Len(chunks) |->
                     FetchChunk(h, kind, chunks[i][1], chunks[i][2], failed)])

\* ------------------------------------------------------------ merge helpers

ByBlock(a, b) == a.blockNumber < b.blockNumber

\* (a, b) => b.level - a.level || b.ap - a.ap
ByLevelAp(a, b) == a.level > b.level \/ (a.level = b.level /\ a.ap > b.ap)

\* Array.prototype.sort is stable: e goes before the first element it is
\* strictly less than.
InsertByBlock(s, e) ==
  LET later == {i \in 1..Len(s) : ByBlock(e, s[i])}
      pos == IF later = {} THEN Len(s) + 1
             ELSE CHOOSE i \in later : \A j \in later : i <= j
  IN SubSeq(s, 1, pos - 1) \o <<e>> \o SubSeq(s, pos, Len(s))

InsertByLevelAp(s, e) ==
  LET later == {i \in 1..Len(s) : ByLevelAp(e, s[i])}
      pos == IF later = {} THEN Len(s) + 1
             ELSE CHOOSE i \in later : \A j \in later : i <= j
  IN SubSeq(s, 1, pos - 1) \o <<e>> \o SubSeq(s, pos, Len(s))

\* list.sort((a, b) => a.blockNumber - b.blockNumber)
RECURSIVE SortByBlock(_)
SortByBlock(s) ==
  IF s = <<>> THEN <<>>
  ELSE InsertByBlock(SortByBlock(SubSeq(s, 1, Len(s) - 1)), s[Len(s)])

\* normies.sort((a, b) => b.level - a.level || b.ap - a.ap)
RECURSIVE SortByLevelAp(_)
SortByLevelAp(s) ==
  IF s = <<>> THEN <<>>
  ELSE InsertByLevelAp(SortByLevelAp(SubSeq(s, 1, Len(s) - 1)), s[Len(s)])

EmptyMap == [k \in Keys |-> <<>>]

\* A key is in the Map iff its list is not empty: the code sets a key only
\* to push to it at once.
MapKeys(m) == {k \in Keys : m[k] # <<>>}

RawEditEvent(log) == [blockNumber |-> log.blockNumber, txHash |-> log.transactionHash]

RawBurnEvent(log) ==
  [blockNumber |-> log.blockNumber, txHash |-> log.transactionHash, tokenId |-> log.tokenId]

RECURSIVE PushEdits(_, _)
PushEdits(m, logs) ==
  IF logs = <<>> THEN m
  ELSE PushEdits([m EXCEPT ![Head(logs).tokenId] = Append(@, RawEditEvent(Head(logs)))],
                 Tail(logs))

RECURSIVE PushBurns(_, _)
PushBurns(m, logs) ==
  IF logs = <<>> THEN m
  ELSE PushBurns([m EXCEPT ![Head(logs).tokenId] = Append(@, RawBurnEvent(Head(logs)))],
                 Tail(logs))

\* The ids of the logs kept in an array instead of a Set or a Map's keys:
\* one element per log.
TouchedOrderAll(logs, seen) ==
  seen \o [i \in 1..Len(logs) |-> logs[i].tokenId]

\* The ids of the logs in the order a Set keeps them: by first insertion.
RECURSIVE TouchedOrder(_, _)
TouchedOrder(logs, seen) ==
  IF logs = <<>> THEN seen
  ELSE TouchedOrder(Tail(logs),
                    IF Head(logs).tokenId \in Range(seen) THEN seen
                    ELSE Append(seen, Head(logs).tokenId))

\* mergeEditLogs without the sort: the lists keep the order of arrival.
MergeEditLogsUnsorted(editsByToken, logs) ==
  [map |-> PushEdits(editsByToken, logs),
   touched |-> TouchedOrder(logs, <<>>)]

\* mergeEditLogs: push every log, then sort the touched keys' lists.
MergeEditLogs(editsByToken, logs) ==
  LET pushed == PushEdits(editsByToken, logs)
      touched == TouchedOrder(logs, <<>>)
  IN [map |-> [k \in Keys |-> IF k \in Range(touched)
                              THEN SortByBlock(pushed[k]) ELSE pushed[k]],
      touched |-> touched]

\* mergeBurnLogs: push every log.
MergeBurnLogs(burnsByToken, logs) ==
  [map |-> PushBurns(burnsByToken, logs),
   touched |-> TouchedOrder(logs, <<>>)]

\* --------------------------------------------------------------- enrichment

\* What the detail API answers for one key: Null when the info read is not
\* ok (429 past the retries included), customized is false or a read throws.
Details == {Null} \cup [level : Levels, ap : {0}]

\* fetchNormieDetails without the ok and customized tests: an answer that
\* is not ok or not customized gives an entry with the defaults.
FetchNormieDetailsUnfiltered(id, editCount, d) ==
  [id |-> id, level |-> IF d = Null THEN 1 ELSE d.level,
   ap |-> IF d = Null THEN 0 ELSE d.ap, editCount |-> editCount]

\* fetchNormieDetails
FetchNormieDetails(id, editCount, d) ==
  IF d = Null THEN Null
  ELSE [id |-> id, level |-> d.level, ap |-> d.ap, editCount |-> editCount]

\* The batches' results pushed in id order, the null ones skipped.
RECURSIVE Enrich(_, _, _)
Enrich(ids, editsByToken, det) ==
  IF ids = <<>> THEN <<>>
  ELSE LET r == FetchNormieDetails(Head(ids), Len(editsByToken[Head(ids)]), det[Head(ids)])
       IN (IF r = Null THEN <<>> ELSE <<r>>) \o Enrich(Tail(ids), editsByToken, det)

\* ------------------------------------------------------------------- scans

\* runFullScan, given what getBlockNumber answered.
RunFullScan(h, latest, t, det, failed) ==
  LET editLogs == ScanRange(h, "edit", CANVAS_DEPLOY_BLOCK, latest, failed)
      burnLogs == ScanRange(h, "burn", CANVAS_DEPLOY_BLOCK, latest, failed)
      edits == MergeEditLogs(EmptyMap, editLogs)
      burns == MergeBurnLogs(EmptyMap, burnLogs)
      normies == SortByLevelAp(Enrich(edits.touched, edits.map, det))
  IN [eventsBlob |-> [latestBlock |-> latest, savedAt |-> t,
                      editsByToken |-> edits.map, burnsByToken |-> burns.map],
      normiesBlob |-> [normies |-> normies, savedAt |-> t, latestBlock |-> latest],
      changed |-> TRUE,
      requests |-> Range(edits.touched)]

\* runIncrementalScan, given what getBlockNumber and loadNormiesBlob (nb)
\* answered. requests: the keys a detail request was issued for.
RunIncrementalScan(existing, h, latest, t, nb, det, failed) ==
  LET fromBlock == existing.latestBlock + 1
      fallback == [normies |-> <<>>, savedAt |-> t, latestBlock |-> latest]
      editLogs == ScanRange(h, "edit", fromBlock, latest, failed)
      burnLogs == ScanRange(h, "burn", fromBlock, latest, failed)
      edits == MergeEditLogs(existing.editsByToken, editLogs)
      burns == MergeBurnLogs(existing.burnsByToken, burnLogs)
      toRefresh == TouchedOrder(editLogs \o burnLogs, <<>>)
      existingNormies == IF nb = Null THEN <<>> ELSE nb.normies
      kept == SelectSeq(existingNormies, LAMBDA n : n.id \notin Range(toRefresh))
      normies == SortByLevelAp(kept \o Enrich(toRefresh, edits.map, det))
  IN IF fromBlock > latest
     THEN [eventsBlob |-> [existing EXCEPT !.savedAt = t],
           normiesBlob |-> IF nb = Null THEN fallback ELSE nb,
           changed |-> FALSE,
           requests |-> {}]
     ELSE IF editLogs = <<>> /\ burnLogs = <<>>
     THEN [eventsBlob |-> [existing EXCEPT !.latestBlock = latest, !.savedAt = t],
           normiesBlob |-> IF nb = Null THEN fallback ELSE nb,
           changed |-> FALSE,
           requests |-> {}]
     ELSE [eventsBlob |-> [latestBlock |-> latest, savedAt |-> t,
                           editsByToken |-> edits.map, burnsByToken |-> burns.map],
           normiesBlob |-> [normies |-> normies, savedAt |-> t, latestBlock |-> latest],
           changed |-> TRUE,
           requests |-> Range(toRefresh)]

\* --------------------------------------------------------------- blob store

\* getJson: the blob, null when the blob is absent, head or fetch fails or the
\* response is not ok; res.json() is returned without await, so a body that
\* does not parse rejects past the catch.
ReadOutcomes == {"ok", "null", "throw"}

GetJson(blob, outcome) ==
  CASE outcome = "ok" -> blob
    [] outcome = "null" -> Null
    [] outcome = "throw" -> Thrown

\* ------------------------------------------------- blob-backed coordinator

\* loadMemCache, given what loadEventsBlob and loadNormiesBlob answered.
\* (blobTimestamps, read from a field EventsBlob does not declare, is left out.)
LoadMemCache(eventsBlob, normiesBlob, t) ==
  IF eventsBlob = Null \/ normiesBlob = Null
  THEN [editsByToken |-> EmptyMap, burnsByToken |-> EmptyMap, normies |-> <<>>,
        latestBlock |-> CANVAS_DEPLOY_BLOCK, loadedAt |-> t]
  ELSE [editsByToken |-> eventsBlob.editsByToken, burnsByToken |-> eventsBlob.burnsByToken,
        normies |-> normiesBlob.normies, latestBlock |-> eventsBlob.latestBlock,
        loadedAt |-> t]

\* getCache without the _loadPromise test: every call that finds the cache
\* absent or stale starts loadMemCache.
GetCacheBlobUnguarded(m, promise, t) ==
  IF m # Null /\ t - m.loadedAt < CACHE_TTL_MS THEN [start |-> FALSE, ret |-> "mem"]
  ELSE [start |-> TRUE, ret |-> IF m # Null THEN "mem" ELSE "promise"]

\* getCache of the blob-backed coordinator: whether it starts loadMemCache,
\* and whether it returns _mem or the promise.
GetCacheBlob(m, promise, t) ==
  IF m # Null /\ t - m.loadedAt < CACHE_TTL_MS THEN [start |-> FALSE, ret |-> "mem"]
  ELSE IF promise THEN [start |-> FALSE, ret |-> IF m # Null THEN "mem" ELSE "promise"]
  ELSE [start |-> TRUE, ret |-> IF m # Null THEN "mem" ELSE "promise"]

\* getCache that awaits the scan whenever the cache is not fresh.
GetCacheScanAwaiting(c, promise, t) ==
  IF c # Null /\ t - c.scannedAt < CACHE_TTL_MS THEN [start |-> FALSE, ret |-> "mem"]
  ELSE [start |-> ~promise, ret |-> "promise"]

\* getCache of the scanning coordinator.
GetCacheScan(c, promise, t) ==
  IF c # Null /\ t - c.scannedAt < CACHE_TTL_MS THEN [start |-> FALSE, ret |-> "mem"]
  ELSE [start |-> ~promise, ret |-> IF c # Null THEN "mem" ELSE "promise"]

\* doFullScan up to the detail fetches: the maps it has built (every edit
\* list sorted, no burn list sorted) and allIds, the keys of editCountByToken.
DoFullScanMaps(h, latest, failed) ==
  LET editLogs == ScanRange(h, "edit", CANVAS_DEPLOY_BLOCK, latest, failed)
      burnLogs == ScanRange(h, "burn", CANVAS_DEPLOY_BLOCK, latest, failed)
      pushed == PushEdits(EmptyMap, editLogs)
  IN [editsByToken |-> [k \in Keys |-> SortByBlock(pushed[k])],
      burnsByToken |-> PushBurns(EmptyMap, burnLogs),
      allIds |-> TouchedOrder(editLogs, <<>>)]

\* doFullScan's entry, from the maps and what the detail API answers.
DoFullScanEntry(work, latest, t, det) ==
  [normies |-> SortByLevelAp(Enrich(work.allIds, work.editsByToken, det)),
   editsByToken |-> work.editsByToken,
   burnsByToken |-> work.burnsByToken,
   scannedAt |-> t, latestBlock |-> latest]

IdleLoad == [pc |-> "off", ev |-> Pending, nb |-> Pending]
IdleScan == [pc |-> "off", latest |-> 0, work |-> Null]

FreeRun(runs) == CHOOSE x \in Runs : runs[x].pc = "off" /\ \A y \in Runs : runs[y].pc = "off" => x <= y

\* The readers awaiting the promise get its value, or its rejection.
Settle(value) ==
  LET waiting == {r \in Readers : rpc[r] = "waiting"}
  IN /\ rpc' = [r \in Readers |-> "idle"]
     /\ got' = IF waiting = {} THEN got ELSE value

\* A read operation calls getCache.
ReaderGetCache(r) ==
  /\ rpc[r] = "idle"
  /\ LET d == IF design = "blob" THEN GetCacheBlob(mem, loadPromise, now)
              ELSE GetCacheScan(cache, scanPromise, now)
         cur == IF design = "blob" THEN mem ELSE cache
     IN /\ IF d.start /\ design = "blob"
           THEN /\ \E x \in Runs : loads[x].pc = "off"
                /\ loads' = [loads EXCEPT ![FreeRun(loads)] = [IdleLoad EXCEPT !.pc = "reading"]]
                /\ loadPromise' = TRUE
           ELSE UNCHANGED <<loads, loadPromise>>
        /\ IF d.start /\ design = "scan"
           THEN /\ \E x \in Runs : scans[x].pc = "off"
                /\ scans' = [scans EXCEPT ![FreeRun(scans)] = [IdleScan EXCEPT !.pc = "called"]]
                /\ scanPromise' = TRUE
           ELSE UNCHANGED <<scans, scanPromise>>
        /\ IF d.ret = "mem"
           THEN /\ got' = cur
                /\ UNCHANGED rpc
           ELSE /\ rpc' = [rpc EXCEPT ![r] = "waiting"]
                /\ UNCHANGED got
  /\ UNCHANGED <<call, chain, head, now, storeVars, cronVars, design, mem, cache>>

\* The callers take the result of their read.
ReaderReturn ==
  /\ got # Null
  /\ got' = Null
  /\ UNCHANGED <<call, chain, head, now, storeVars, cronVars, design,
                 mem, loadPromise, loads, cache, scanPromise, scans, rpc>>

\* loadMemCache that writes the events document's maps into _mem as soon as
\* loadEventsBlob answers, before loadNormiesBlob has.
LoadReadEventsInPlace(x) ==
  /\ design = "blob"
  /\ loads[x].pc = "reading" /\ loads[x].ev = Pending
  /\ \E o \in {"ok", "null"} : loads' = [loads EXCEPT ![x].ev = GetJson(blobEvents, o)]
  /\ mem' = IF mem # Null /\ blobEvents # Null
            THEN [mem EXCEPT !.editsByToken = blobEvents.editsByToken,
                             !.burnsByToken = blobEvents.burnsByToken,
                             !.latestBlock = blobEvents.latestBlock]
            ELSE mem
  /\ UNCHANGED <<call, chain, head, now, storeVars, cronVars, design,
                 loadPromise, cache, scanPromise, scans, rpc, got>>

\* loadMemCache: loadEventsBlob answers.
LoadReadEvents(x) ==
  /\ design = "blob"
  /\ loads[x].pc = "reading" /\ loads[x].ev = Pending
  /\ \E o \in {"ok", "null"} : loads' = [loads EXCEPT ![x].ev = GetJson(blobEvents, o)]
  /\ UNCHANGED <<call, chain, head, now, storeVars, cronVars, design,
                 mem, loadPromise, cache, scanPromise, scans, rpc, got>>

\* loadMemCache: loadNormiesBlob answers.
LoadReadNormies(x) ==
  /\ design = "blob"
  /\ loads[x].pc = "reading" /\ loads[x].nb = Pending
  /\ \E o \in {"ok", "null"} : loads' = [loads EXCEPT ![x].nb = GetJson(blobNormies, o)]
  /\ UNCHANGED <<call, chain, head, now, storeVars, cronVars, design,
                 mem, loadPromise, cache, scanPromise, scans, rpc, got>>

\* loadMemCache with a write-back: a run that finds a document absent saves
\* the empty cache it returns as the two documents.
LoadAdoptSaving(x) ==
  /\ design = "blob"
  /\ loads[x].pc = "reading"
  /\ loads[x].ev # Pending /\ loads[x].nb # Pending
  /\ LET m == LoadMemCache(loads[x].ev, loads[x].nb, now)
     IN /\ mem' = m /\ Settle(m)
        /\ IF loads[x].ev = Null \/ loads[x].nb = Null
           THEN /\ blobEvents' = [latestBlock |-> m.latestBlock, savedAt |-> now,
                                  editsByToken |-> m.editsByToken,
                                  burnsByToken |-> m.burnsByToken]
                /\ blobNormies' = [normies |-> m.normies, savedAt |-> now,
                                   latestBlock |-> m.latestBlock]
           ELSE UNCHANGED storeVars
  /\ loadPromise' = FALSE
  /\ loads' = [loads EXCEPT ![x] = IdleLoad]
  /\ UNCHANGED <<call, chain, head, now, cronVars, design, cache, scanPromise, scans>>

\* loadMemCache returns: .then adopts the result, .finally clears the promise.
LoadAdopt(x) ==
  /\ design = "blob"
  /\ loads[x].pc = "reading"
  /\ loads[x].ev # Pending /\ loads[x].nb # Pending
  /\ LET m == LoadMemCache(loads[x].ev, loads[x].nb, now)
     IN mem' = m /\ Settle(m)
  /\ loadPromise' = FALSE
  /\ loads' = [loads EXCEPT ![x] = IdleLoad]
  /\ UNCHANGED <<call, chain, head, now, storeVars, cronVars, design, cache, scanPromise, scans>>

\* loadMemCache rejects, with the promise cleared by .then instead of
\* .finally: a rejected load leaves _loadPromise set.
LoadFailKeepsPromise(x) ==
  /\ design = "blob"
  /\ loads[x].pc = "reading"
  /\ Pending \in {loads[x].ev, loads[x].nb}
  /\ Settle(IF mem # Null THEN mem ELSE GetJson(Null, "throw"))
  /\ loads' = [loads EXCEPT ![x] = IdleLoad]
  /\ UNCHANGED <<call, chain, head, now, storeVars, cronVars, design, mem,
                 loadPromise, cache, scanPromise, scans>>

\* One of the two reads throws and loadMemCache rejects: .catch answers _mem
\* when there is one and rethrows when there is none, .finally clears the
\* promise.
LoadFail(x) ==
  /\ design = "blob"
  /\ loads[x].pc = "reading"
  /\ Pending \in {loads[x].ev, loads[x].nb}
  /\ Settle(IF mem # Null THEN mem ELSE GetJson(Null, "throw"))
  /\ loadPromise' = FALSE
  /\ loads' = [loads EXCEPT ![x] = IdleLoad]
  /\ UNCHANGED <<call, chain, head, now, storeVars, cronVars, design, mem, cache, scanPromise, scans>>

\* ---------------------------------------------------- scanning coordinator

\* doFullScan: getBlockNumber answers.
ScanHead(x) ==
  /\ design = "scan"
  /\ scans[x].pc = "called"
  /\ scans' = [scans EXCEPT ![x].pc = "scanning", ![x].latest = head]
  /\ UNCHANGED <<call, chain, head, now, storeVars, cronVars, design,
                 mem, loadPromise, loads, cache, scanPromise, rpc, got>>

\* doFullScan: getBlockNumber throws; the promise rejects (nothing catches
\* it), .finally clears it.
ScanFail(x) ==
  /\ design = "scan"
  /\ scans[x].pc = "called"
  /\ Settle(Thrown)
  /\ scanPromise' = FALSE
  /\ scans' = [scans EXCEPT ![x] = IdleScan]
  /\ UNCHANGED <<call, chain, head, now, storeVars, cronVars, design, mem, loadPromise, loads, cache>>

\* doFullScan: both scanEvent calls have answered and the maps are built.
ScanLogs(x) ==
  /\ design = "scan"
  /\ scans[x].pc = "scanning"
  /\ scans' = [scans EXCEPT ![x].pc = "enriching",
                            ![x].work = DoFullScanMaps(chain, scans[x].latest, {})]
  /\ UNCHANGED <<call, chain, head, now, storeVars, cronVars, design,
                 mem, loadPromise, loads, cache, scanPromise, rpc, got>>

\* doFullScan returns its entry: .then adopts it, .finally clears the promise.
ScanAdopt(x) ==
  /\ design = "scan"
  /\ scans[x].pc = "enriching"
  /\ \E det \in [Keys -> Details] :
       LET entry == DoFullScanEntry(scans[x].work, scans[x].latest, now, det)
       IN cache' = entry /\ Settle(entry)
  /\ scanPromise' = FALSE
  /\ scans' = [scans EXCEPT ![x] = IdleScan]
  /\ UNCHANGED <<call, chain, head, now, storeVars, cronVars, design, mem, loadPromise, loads>>

\* ------------------------------------------------------------ cron handler

IdleCron == [pc |-> "idle", existing |-> Null, latest |-> 0, result |-> Null, saved |-> {}]

\* GET: loadEventsBlob answers and runFullScan or runIncrementalScan is
\* called. (A read that throws ends the invocation with status 500.)
CronStart(i) ==
  /\ cron[i].pc = "idle"
  /\ \E o \in {"ok", "null"} :
       cron' = [cron EXCEPT ![i] = [IdleCron EXCEPT !.pc = "called",
                                                    !.existing = GetJson(blobEvents, o)]]
  /\ UNCHANGED <<call, chain, head, now, storeVars, design, coordVars>>

\* The scan's getBlockNumber answers.
CronHead(i) ==
  /\ cron[i].pc = "called"
  /\ cron' = [cron EXCEPT ![i].pc = "scanning", ![i].latest = head]
  /\ UNCHANGED <<call, chain, head, now, storeVars, design, coordVars>>

\* The scan's getBlockNumber throws: status 500, nothing is saved.
CronFail(i) ==
  /\ cron[i].pc = "called"
  /\ cron' = [cron EXCEPT ![i] = IdleCron]
  /\ UNCHANGED <<call, chain, head, now, storeVars, design, coordVars>>

\* runFullScan returns.
CronFullScan(i) ==
  /\ cron[i].pc = "scanning" /\ cron[i].existing = Null
  /\ \E det \in [Keys -> Details] :
       cron' = [cron EXCEPT ![i].pc = "saving",
                            ![i].result = RunFullScan(chain, cron[i].latest, now, det, {})]
  /\ UNCHANGED <<call, chain, head, now, storeVars, design, coordVars>>

\* runIncrementalScan returns. (A loadNormiesBlob that throws ends the
\* invocation with status 500.)
CronIncrementalScan(i) ==
  /\ cron[i].pc = "scanning" /\ cron[i].existing # Null
  /\ \E det \in [Keys -> Details], o \in {"ok", "null"} :
       cron' = [cron EXCEPT ![i].pc = "saving",
                            ![i].result = RunIncrementalScan(cron[i].existing, chain,
                                            cron[i].latest, now, GetJson(blobNormies, o),
                                            det, {})]
  /\ UNCHANGED <<call, chain, head, now, storeVars, design, coordVars>>

\* What the detail API answers when every key is customized, at a level
\* that does not change between scans.
SteadyDetails == [k \in Keys |-> [level |-> ((k - 1) % MaxLevel) + 1, ap |-> 0]]

\* GET up to the puts, for an invocation no other invocation overlaps, whose
\* reads answer and whose detail requests find SteadyDetails.
CronCycle(i) ==
  /\ design = "blob"
  /\ cron[i].pc = "idle"
  /\ LET existing == GetJson(blobEvents, "ok")
         result == IF existing = Null
                   THEN RunFullScan(chain, head, now, SteadyDetails, {})
                   ELSE RunIncrementalScan(existing, chain, head, now,
                                           GetJson(blobNormies, "ok"), SteadyDetails, {})
     IN cron' = [cron EXCEPT ![i] = [IdleCron EXCEPT !.pc = "saving", !.result = result]]
  /\ UNCHANGED <<call, chain, head, now, storeVars, design, coordVars>>

\* The invocation answers once both puts of Promise.all are done.
AfterSave(i, what) ==
  cron' = IF cron[i].saved \cup {what} = {"events", "normies"}
          THEN [cron EXCEPT ![i] = IdleCron]
          ELSE [cron EXCEPT ![i].saved = @ \cup {what}]

\* saveEventsBlob
CronSaveEvents(i) ==
  /\ cron[i].pc = "saving" /\ "events" \notin cron[i].saved
  /\ blobEvents' = cron[i].result.eventsBlob
  /\ AfterSave(i, "events")
  /\ UNCHANGED <<call, chain, head, now, blobNormies, design, coordVars>>

\* saveNormiesBlob
CronSaveNormies(i) ==
  /\ cron[i].pc = "saving" /\ "normies" \notin cron[i].saved
  /\ blobNormies' = cron[i].result.normiesBlob
  /\ AfterSave(i, "normies")
  /\ UNCHANGED <<call, chain, head, now, blobEvents, design, coordVars>>

\* -------------------------------------------------------------- environment

\* A block is mined.
ChainAdvance ==
  /\ head < MaxBlock
  /\ head' = head + 1
  /\ UNCHANGED <<call, chain, now, storeVars, cronVars, design, coordVars>>

\* Time passes.
Tick ==
  /\ now < MaxNow
  /\ now' = now + 1
  /\ UNCHANGED <<call, chain, head, storeVars, cronVars, design, coordVars>>

\* The history the system specifications run on: key 1 is edited in block 1
\* and key 2 in block 2; later blocks hold no event.
SystemChain ==
  << [kind |-> "edit", blockNumber |-> 1, transactionHash |-> 1, tokenId |-> 1],
     [kind |-> "edit", blockNumber |-> 2, transactionHash |-> 2, tokenId |-> 2] >>

InitCommon ==
  /\ head = CANVAS_DEPLOY_BLOCK
  /\ now = 0
  /\ blobEvents = Null
  /\ blobNormies = Null
  /\ cron = [i \in Crons |-> IdleCron]
  /\ mem = Null
  /\ loadPromise = FALSE
  /\ loads = [x \in Runs |-> IdleLoad]
  /\ cache = Null
  /\ scanPromise = FALSE
  /\ scans = [x \in Runs |-> IdleScan]
  /\ rpc = [r \in Readers |-> "idle"]
  /\ got = Null
  /\ call = NoCall

\* ------------------------------------------------------- the read path

Init ==
  /\ InitCommon
  /\ chain = SystemChain
  /\ design \in {"blob", "scan"}

CronStep ==
  \E i \in Crons :
    \/ CronStart(i) \/ CronHead(i) \/ CronFail(i) \/ CronFullScan(i)
    \/ CronIncrementalScan(i) \/ CronSaveEvents(i) \/ CronSaveNormies(i)

\* The read path of either coordinator; the store is written by one cron
\* invocation at a time.
Next ==
  \/ ChainAdvance
  \/ Tick
  \/ \E r \in Readers : ReaderGetCache(r)
  \/ ReaderReturn
  \/ CronCycle(1)
  \/ CronSaveEvents(1)
  \/ CronSaveNormies(1)
  \/ \E x \in Runs : LoadReadEvents(x)
  \/ \E x \in Runs : LoadReadNormies(x)
  \/ \E x \in Runs : LoadAdopt(x)
  \/ \E x \in Runs : LoadFail(x)
  \/ \E x \in Runs : ScanHead(x)
  \/ \E x \in Runs : ScanFail(x)
  \/ \E x \in Runs : ScanLogs(x)
  \/ \E x \in Runs : ScanAdopt(x)

Spec == Init /\ [][Next]_vars

\* ------------------------------------------------ overlapping cron cycles

InitCron ==
  /\ InitCommon
  /\ chain = SystemChain
  /\ design = "blob"

NextCron == ChainAdvance \/ CronStep

SpecCron == InitCron /\ [][NextCron]_vars

\* ------------------------------------------- sequential cycles, no failure

\* The state before the first cron run, for any history of the source.
InitSeq ==
  /\ InitCommon
  /\ chain \in Histories
  /\ design = "blob"

\* One run of the cron handler, start to end, on an empty store.
SeqFullCycle ==
  /\ blobEvents = Null
  /\ \E det \in [Keys -> Details] :
       LET r == RunFullScan(chain, head, now, det, {})
       IN /\ blobEvents' = r.eventsBlob
          /\ blobNormies' = r.normiesBlob
  /\ UNCHANGED <<call, chain, head, now, cronVars, design, coordVars>>

\* One run of the cron handler, start to end, on a populated store.
SeqIncrementalCycle ==
  /\ blobEvents # Null
  /\ \E det \in [Keys -> Details] :
       LET r == RunIncrementalScan(blobEvents, chain, head, now, blobNormies, det, {})
       IN /\ blobEvents' = r.eventsBlob
          /\ blobNormies' = r.normiesBlob
  /\ UNCHANGED <<call, chain, head, now, cronVars, design, coordVars>>

NextSeq == ChainAdvance \/ SeqFullCycle \/ SeqIncrementalCycle

SpecSeq == InitSeq /\ [][NextSeq]_vars

\* ----------------------------------- sequential cycles on chosen histories

\* Histories in which a key is edited in two blocks, a key only receives a
\* burn, and two keys are edited one after the other.
EnrichChains ==
  { << [kind |-> "edit", blockNumber |-> 1, transactionHash |-> 1, tokenId |-> 1],
       [kind |-> "edit", blockNumber |-> 2, transactionHash |-> 2, tokenId |-> 1] >>,
    << [kind |-> "edit", blockNumber |-> 1, transactionHash |-> 1, tokenId |-> 1],
       [kind |-> "burn", blockNumber |-> 2, transactionHash |-> 2, tokenId |-> 2] >>,
    SystemChain }

InitEnrich ==
  /\ InitCommon
  /\ chain \in EnrichChains
  /\ design = "blob"

\* Cron cycles with time passing between them.
NextEnrich == ChainAdvance \/ Tick \/ SeqFullCycle \/ SeqIncrementalCycle

SpecEnrich == InitEnrich /\ [][NextEnrich]_vars

\* ------------------------------------- sequential cycles with failing chunks

\* One run of the cron handler on an empty store, in which the chunks that
\* start at a block of failed fail on every attempt.
FailFullCycle ==
  /\ blobEvents = Null
  /\ \E det \in [Keys -> Details], failed \in SUBSET Blocks :
       LET r == RunFullScan(chain, head, now, det, failed)
       IN /\ blobEvents' = r.eventsBlob
          /\ blobNormies' = r.normiesBlob
  /\ UNCHANGED <<call, chain, head, now, cronVars, design, coordVars>>

\* One run of the cron handler on a populated store, with failing chunks.
FailIncrementalCycle ==
  /\ blobEvents # Null
  /\ \E det \in [Keys -> Details], failed \in SUBSET Blocks :
       LET r == RunIncrementalScan(blobEvents, chain, head, now, blobNormies, det, failed)
       IN /\ blobEvents' = r.eventsBlob
          /\ blobNormies' = r.normiesBlob
  /\ UNCHANGED <<call, chain, head, now, cronVars, design, coordVars>>

NextFail == ChainAdvance \/ FailFullCycle \/ FailIncrementalCycle

SpecFail == InitSeq /\ [][NextFail]_vars

\* ------------------------------------------------- scanRange, step by step

\* The copies of fetchChunk and scanRange: lib/indexer.ts and the index
\* builder kept in app/api/leaderboards/route.ts.
Sites == {"indexer", "builder"}

\* fetchChunk retries while attempt < 2 (indexer) or attempt < 3 (builder).
ChunkRetries(site) == IF site = "indexer" THEN 2 ELSE 3

\* The wait before the retry that follows a failed attempt, in ms.
ChunkDelay(site, attempt) == (IF site = "indexer" THEN 500 ELSE 800) * (attempt + 1)

\* scanRange is called: the chunk list is built; with from > to it returns
\* [] at once.
RangeCall ==
  /\ call = NoCall
  /\ \E site \in Sites, kind \in {"edit", "burn"}, from \in Blocks, to \in 0..MaxBlock :
       call' = [fn |-> "scanRange", site |-> site, kind |-> kind,
                from |-> from, to |-> to, chunks |-> Chunks(from, to), idx |-> 1, attempt |-> 0, delays |-> <<>>,
                okc |-> <<>>, all |-> <<>>, last |-> Null,
                pc |-> IF from > to THEN "returned" ELSE "query"]
  /\ UNCHANGED <<chain, head, now, storeVars, cronVars, design, coordVars>>

\* fetchChunk of the current chunk returns result: scanRange pushes it and
\* goes to the next chunk, or returns after the last one.
ChunkDone(result, ok) ==
  [call EXCEPT !.all = @ \o result,
               !.okc = Append(@, ok),
               !.last = [queries |-> call.attempt + 1, delays |-> call.delays,
                         result |-> result, ok |-> ok],
               !.idx = @ + 1, !.attempt = 0, !.delays = <<>>,
               !.pc = IF call.idx = Len(call.chunks) THEN "returned" ELSE "query"]

\* getLogs answers: fetchChunk returns its logs.
ChunkQueryOk ==
  /\ call.fn = "scanRange" /\ call.pc = "query"
  /\ call' = ChunkDone(GetLogs(chain, call.kind, call.chunks[call.idx][1],
                               call.chunks[call.idx][2]), TRUE)
  /\ UNCHANGED <<chain, head, now, storeVars, cronVars, design, coordVars>>

\* A fetchChunk that rethrows when the attempts are used up: the rejection
\* ends scanRange's Promise.all and the remaining chunks are never pushed.
ChunkQueryThrowsAborting ==
  /\ call.fn = "scanRange" /\ call.pc = "query"
  /\ call' = IF call.attempt < ChunkRetries(call.site)
             THEN [call EXCEPT !.attempt = @ + 1,
                               !.delays = Append(@, ChunkDelay(call.site, call.attempt))]
             ELSE [call EXCEPT !.pc = "returned"]
  /\ UNCHANGED <<chain, head, now, storeVars, cronVars, design, coordVars>>

\* getLogs throws: fetchChunk waits and calls itself with attempt + 1, or
\* warns and returns [] when the attempts are used up.
ChunkQueryThrows ==
  /\ call.fn = "scanRange" /\ call.pc = "query"
  /\ call' = IF call.attempt < ChunkRetries(call.site)
             THEN [call EXCEPT !.attempt = @ + 1,
                               !.delays = Append(@, ChunkDelay(call.site, call.attempt))]
             ELSE ChunkDone(<<>>, FALSE)
  /\ UNCHANGED <<chain, head, now, storeVars, cronVars, design, coordVars>>

\* The caller takes scanRange's result.
RangeReturn ==
  /\ call.fn = "scanRange" /\ call.pc = "returned"
  /\ call' = NoCall
  /\ UNCHANGED <<chain, head, now, storeVars, cronVars, design, coordVars>>

NextRange == RangeCall \/ ChunkQueryOk \/ ChunkQueryThrows \/ RangeReturn

\* Histories whose logs fall in different chunks of a scanned range.
RangeChains ==
  { << [kind |-> "edit", blockNumber |-> 1, transactionHash |-> 1, tokenId |-> 1],
       [kind |-> "edit", blockNumber |-> 3, transactionHash |-> 2, tokenId |-> 2] >>,
    << [kind |-> "burn", blockNumber |-> 1, transactionHash |-> 1, tokenId |-> 1],
       [kind |-> "burn", blockNumber |-> 3, transactionHash |-> 2, tokenId |-> 2] >>,
    SystemChain }

InitRange ==
  /\ InitCommon
  /\ chain \in RangeChains
  /\ design = "blob"

SpecRange == InitRange /\ [][NextRange]_vars

\* ----------------------------------------- fetchNormieDetails, step by step

\* The Retry-After header of a 429 response: absent, or a number of seconds.
RetryAfterHeaders == {[present |-> FALSE, value |-> 0]} \cup
                     [present : {TRUE}, value : {0, 1, 3}]

\* (retryAfter || 2) with retryAfter = parseInt(header ?? "2", 10), in s.
RetryAfterOrDefault(h) == IF ~h.present \/ h.value = 0 THEN 2 ELSE h.value

\* The three requests of fetchNormieDetails, followed one after the other.
DetailRequests == <<"info", "diff", "traits">>

\* res.ok
ResOk(res) == res.status >= 200 /\ res.status <= 299

\* fetchNormieDetails once the three fetchWithRetry calls have resolved; the
\* bodies, when read, are customized / level 1 / 0 action points for info,
\* one added and one removed pixel for diff, and type "Cat" for traits.
DetailsResult(id, editCount, infoRes, diffRes, traitsRes) ==
  IF ~ResOk(infoRes) THEN Null
  ELSE IF ~infoRes.customized THEN Null
  ELSE [id |-> id, level |-> 1, ap |-> 0,
        added |-> IF ResOk(diffRes) THEN 1 ELSE 0,
        removed |-> IF ResOk(diffRes) THEN 1 ELSE 0,
        editCount |-> editCount,
        type |-> IF ResOk(traitsRes) THEN "Cat" ELSE "Human"]

\* fetchNormieDetails is called for a key.
DetailsCall ==
  /\ call = NoCall
  /\ \E id \in Keys, editCount \in 0..1 :
       call' = [fn |-> "fetchNormieDetails", id |-> id, editCount |-> editCount,
                req |-> 1, attempt |-> 0, waits |-> <<>>, hints |-> <<>>,
                res |-> <<>>, exhausted |-> {}, retried |-> {},
                pc |-> "fetch", result |-> Pending]
  /\ UNCHANGED <<chain, head, now, storeVars, cronVars, design, coordVars>>

\* fetchWithRetry: the response is 429 and attempt < 4: wait, then fetch
\* again with attempt + 1.
DetailsRateLimited ==
  /\ call.fn = "fetchNormieDetails" /\ call.pc = "fetch"
  /\ call.attempt < 4
  /\ \E h \in RetryAfterHeaders :
       call' = [call EXCEPT !.attempt = @ + 1,
                            !.waits = Append(@, RetryAfterOrDefault(h) * 1000 * (call.attempt + 1)),
                            !.hints = Append(@, h),
                            !.retried = @ \cup {call.req}]
  /\ UNCHANGED <<chain, head, now, storeVars, cronVars, design, coordVars>>

\* fetchWithRetry returns res: a response that is not 429, or a 429 when
\* attempt = 4. After the third request fetchNormieDetails returns.
DetailsResponse ==
  /\ call.fn = "fetchNormieDetails" /\ call.pc = "fetch"
  /\ \E status \in {200, 429, 500}, customized \in BOOLEAN :
       /\ status = 429 => call.attempt = 4
       /\ (call.req # 1 \/ status # 200) => customized
       /\ LET res == Append(call.res, [status |-> status, customized |-> customized])
              exhausted == IF status = 429 THEN call.exhausted \cup {call.req}
                           ELSE call.exhausted
          IN call' = IF call.req < Len(DetailRequests)
                     THEN [call EXCEPT !.req = @ + 1, !.attempt = 0, !.waits = <<>>,
                                       !.hints = <<>>, !.res = res, !.exhausted = exhausted]
                     ELSE [call EXCEPT !.res = res, !.exhausted = exhausted,
                                       !.pc = "returned",
                                       !.result = DetailsResult(call.id, call.editCount,
                                                                res[1], res[2], res[3])]
  /\ UNCHANGED <<chain, head, now, storeVars, cronVars, design, coordVars>>

\* fetch rejects (no response): the catch of fetchNormieDetails returns null.
DetailsThrows ==
  /\ call.fn = "fetchNormieDetails" /\ call.pc = "fetch"
  /\ call' = [call EXCEPT !.pc = "returned", !.result = Null]
  /\ UNCHANGED <<chain, head, now, storeVars, cronVars, design, coordVars>>

\* The scan takes the result.
DetailsReturn ==
  /\ call.fn = "fetchNormieDetails" /\ call.pc = "returned"
  /\ call' = NoCall
  /\ UNCHANGED <<chain, head, now, storeVars, cronVars, design, coordVars>>

NextDetails ==
  DetailsCall \/ DetailsRateLimited \/ DetailsResponse \/ DetailsThrows \/ DetailsReturn

SpecDetails == InitCron /\ [][NextDetails]_vars

\* ------------------------------------------------------ the trigger request

\* The two GET handlers of /api/cron/index: the cron route and the manual
\* trigger.
Handlers == {"cron", "manual"}

\* req.headers.get("authorization"): absent, or the header's value.
AuthHeaders == {[present |-> FALSE, value |-> ""]} \cup
               [present : {TRUE}, value : {"Bearer s1", "Bearer s2", "s1"}]

\* process.env.CRON_SECRET: unset, or the configured value.
CronSecrets == {[set |-> FALSE, value |-> ""], [set |-> TRUE, value |-> ""],
                [set |-> TRUE, value |-> "s1"]}

\* The handler's test before anything else: whether the request goes on.
\* The manual trigger has no test.
Authorized(handler, authHeader, cronSecret) ==
  \/ handler = "manual"
  \/ ~(cronSecret.set /\ cronSecret.value # ""
         /\ ~(authHeader.present /\ authHeader.value = "Bearer " \o cronSecret.value))

\* GET of invocation 1 up to the answer of loadEventsBlob: 401 at once, or
\* the invocation starts. (status 0: no response yet.)
TriggerGET ==
  /\ cron[1].pc = "idle"
  /\ \E handler \in Handlers, authHeader \in AuthHeaders, cronSecret \in CronSecrets,
        o \in {"ok", "null"} :
       IF Authorized(handler, authHeader, cronSecret)
       THEN /\ call' = [fn |-> "GET", handler |-> handler, authHeader |-> authHeader,
                        cronSecret |-> cronSecret, status |-> 0]
            /\ cron' = [cron EXCEPT ![1] = [IdleCron EXCEPT !.pc = "called",
                                              !.existing = GetJson(blobEvents, o)]]
       ELSE /\ call' = [fn |-> "GET", handler |-> handler, authHeader |-> authHeader,
                        cronSecret |-> cronSecret, status |-> 401]
            /\ UNCHANGED cron
  /\ UNCHANGED <<chain, head, now, storeVars, design, coordVars>>

NextTrigger ==
  \/ ChainAdvance
  \/ TriggerGET
  \/ CronHead(1)
  \/ CronFail(1)
  \/ CronFullScan(1)
  \/ CronIncrementalScan(1)
  \/ CronSaveEvents(1)
  \/ CronSaveNormies(1)

SpecTrigger == InitCron /\ [][NextTrigger]_vars

\* ------------------------------------------ full scans on chosen histories

\* Histories in which a key is edited in two blocks, two keys are edited in
\* one block, a block holds two edits of a key in one transaction, a key
\* only receives a burn, and the source answers the later block first.
FullScanChains ==
  { << [kind |-> "edit", blockNumber |-> 2, transactionHash |-> 2, tokenId |-> 1],
       [kind |-> "edit", blockNumber |-> 1, transactionHash |-> 1, tokenId |-> 1] >> } \cup
  { << [kind |-> "edit", blockNumber |-> 1, transactionHash |-> 1, tokenId |-> 1],
       [kind |-> "edit", blockNumber |-> 2, transactionHash |-> 2, tokenId |-> 1] >>,
    << [kind |-> "edit", blockNumber |-> 1, transactionHash |-> 1, tokenId |-> 2],
       [kind |-> "edit", blockNumber |-> 1, transactionHash |-> 1, tokenId |-> 1] >>,
    << [kind |-> "edit", blockNumber |-> 2, transactionHash |-> 1, tokenId |-> 1],
       [kind |-> "edit", blockNumber |-> 2, transactionHash |-> 1, tokenId |-> 1] >>,
    << [kind |-> "burn", blockNumber |-> 1, transactionHash |-> 1, tokenId |-> 2],
       [kind |-> "edit", blockNumber |-> 3, transactionHash |-> 2, tokenId |-> 1] >> }

InitFull ==
  /\ InitCommon
  /\ chain \in FullScanChains
  /\ design = "blob"

SpecFull == InitFull /\ [][NextEnrich]_vars

\* ----------------------------------------------------------- getTokenHistory

\* block.timestamp of a block of the source, in seconds.
ChainTimestamp(b) == 10 * b

\* getTokenHistory's answer on the cache getCache gave, with the timestamp
\* map it ends up with (ts: block -> seconds).
GetTokenHistory(c, tokenId, ts) ==
  LET rawEdits == c.editsByToken[tokenId]
      rawBurns == c.burnsByToken[tokenId]
  IN [edits |-> [i \in 1..Len(rawEdits) |->
                   [blockNumber |-> rawEdits[i].blockNumber, txHash |-> rawEdits[i].txHash,
                    timestamp |-> ts[rawEdits[i].blockNumber]]],
      burns |-> [i \in 1..Len(rawBurns) |->
                   [blockNumber |-> rawBurns[i].blockNumber, txHash |-> rawBurns[i].txHash,
                    tokenId |-> rawBurns[i].tokenId,
                    timestamp |-> ts[rawBurns[i].blockNumber]]]]

\* ------------------------------------------- read operations on a fresh cache

ReadOps == {"getLeaderboards", "getUpgradedNormies", "getThe100"}

\* A public read operation of the blob-backed revision whose getCache finds
\* _mem younger than the TTL and returns it: what the operation does next,
\* start to end. storeReads and sourceRequests count its reads of the store
\* and its requests to the event source.
ReadFresh ==
  /\ design = "blob"
  /\ mem # Null /\ now - mem.loadedAt < CACHE_TTL_MS
  /\ \E op \in ReadOps, o \in ReadOutcomes :
       LET loads_nb == op # "getUpgradedNormies"
           got_nb == IF loads_nb THEN GetJson(blobNormies, o) ELSE Null
           normiesBlob == IF got_nb = Thrown THEN Null ELSE got_nb
       IN call' = [fn |-> op,
                   storeReads |-> IF loads_nb THEN 1 ELSE 0,
                   sourceRequests |-> 0,
                   scannedAt |-> IF normiesBlob = Null THEN now ELSE normiesBlob.savedAt,
                   latestBlock |-> mem.latestBlock]
  /\ UNCHANGED <<chain, head, now, storeVars, cronVars, design, coordVars>>

InitOps ==
  /\ InitCommon
  /\ chain = SystemChain
  /\ design = "blob"

NextOps ==
  \/ ChainAdvance
  \/ Tick
  \/ \E r \in Readers : ReaderGetCache(r)
  \/ ReaderReturn
  \/ CronCycle(1)
  \/ CronSaveEvents(1)
  \/ CronSaveNormies(1)
  \/ \E x \in Runs : LoadReadEvents(x)
  \/ \E x \in Runs : LoadReadNormies(x)
  \/ \E x \in Runs : LoadAdopt(x)
  \/ ReadFresh

SpecOps == InitOps /\ [][NextOps]_vars

\* ------------------------------------------- runIncrementalScan's argument

\* The object passed to runIncrementalScan as `existing`, as it is once the
\* call has returned. new Map(existing.editsByToken) copies the entries,
\* not the arrays they hold: the list of a key that existing has an entry
\* for is the very array mergeEditLogs or mergeBurnLogs pushes to (and
\* sorts). A key without an entry gets a new array in the new map only, and
\* the two early returns touch nothing.
ExistingAfterIncremental(existing, h, latest) ==
  LET fromBlock == existing.latestBlock + 1
      editLogs == ScanRange(h, "edit", fromBlock, latest, {})
      burnLogs == ScanRange(h, "burn", fromBlock, latest, {})
      edits == MergeEditLogs(existing.editsByToken, editLogs).map
      burns == MergeBurnLogs(existing.burnsByToken, burnLogs).map
  IN IF fromBlock > latest \/ (editLogs = <<>> /\ burnLogs = <<>>) THEN existing
     ELSE [existing EXCEPT
             !.editsByToken = [k \in Keys |-> IF existing.editsByToken[k] # <<>>
                                              THEN edits[k] ELSE <<>>],
             !.burnsByToken = [k \in Keys |-> IF existing.burnsByToken[k] # <<>>
                                              THEN burns[k] ELSE <<>>]]

\* ------------------------------------------------- scanRange, wave by wave

\* The indices of chunks.slice(i, i + PARALLEL_CHUNKS), for every index:
\* a Promise.all over the whole rest of the list.
WaveSliceAll(chunks, i) == i..Len(chunks)

\* The indices of chunks.slice(i, i + PARALLEL_CHUNKS) (i counted from 1).
WaveSlice(chunks, i) ==
  i..(IF i + PARALLEL_CHUNKS - 1 < Len(chunks) THEN i + PARALLEL_CHUNKS - 1 ELSE Len(chunks))

\* scanRange is called: it returns [] at once, or builds the chunk list and
\* calls fetchChunk for every chunk of the first slice.
WaveCall ==
  /\ call = NoCall
  /\ \E kind \in {"edit", "burn"}, from \in Blocks, to \in 0..MaxWaveTo :
       LET chunks == Chunks(from, to)
       IN call' = [fn |-> "scanRange.waves", kind |-> kind, from |-> from, to |-> to,
                   chunks |-> chunks, i |-> 1,
                   requested |-> IF from > to THEN {} ELSE WaveSlice(chunks, 1),
                   settled |-> {},
                   attempt |-> [j \in 1..Len(chunks) |-> 0],
                   res |-> [j \in 1..Len(chunks) |-> <<>>],
                   order |-> <<>>, all |-> <<>>,
                   pc |-> IF from > to THEN "returned" ELSE "wave"]
  /\ UNCHANGED <<chain, head, now, storeVars, cronVars, design, coordVars>>

\* getLogs answers for a chunk in flight: its fetchChunk settles.
WaveQueryOk ==
  /\ call.fn = "scanRange.waves" /\ call.pc = "wave"
  /\ \E j \in call.requested \ call.settled :
       call' = [call EXCEPT !.settled = @ \cup {j},
                            !.order = Append(@, j),
                            !.res[j] = GetLogs(chain, call.kind, call.chunks[j][1],
                                               call.chunks[j][2])]
  /\ UNCHANGED <<chain, head, now, storeVars, cronVars, design, coordVars>>

\* getLogs throws for a chunk in flight: its fetchChunk retries, or settles
\* with [] once the attempts are used up.
WaveQueryThrows ==
  /\ call.fn = "scanRange.waves" /\ call.pc = "wave"
  /\ \E j \in call.requested \ call.settled :
       call' = IF call.attempt[j] < ChunkRetries("indexer")
               THEN [call EXCEPT !.attempt[j] = @ + 1]
               ELSE [call EXCEPT !.settled = @ \cup {j}, !.order = Append(@, j)]
  /\ UNCHANGED <<chain, head, now, storeVars, cronVars, design, coordVars>>

\* Promise.all of the slice resolves: the results are pushed in slice order
\* and the next slice's chunks are requested, or scanRange returns.
WaveEnd ==
  /\ call.fn = "scanRange.waves" /\ call.pc = "wave"
  /\ WaveSlice(call.chunks, call.i) \subseteq call.settled
  /\ LET slice == WaveSlice(call.chunks, call.i)
         pushed == call.all \o Flatten([n \in 1..Cardinality(slice) |->
                                          call.res[call.i + n - 1]])
         next == call.i + PARALLEL_CHUNKS
     IN call' = IF next > Len(call.chunks)
                THEN [call EXCEPT !.all = pushed, !.i = next, !.pc = "returned"]
                ELSE [call EXCEPT !.all = pushed, !.i = next,
                                  !.requested = @ \cup WaveSlice(call.chunks, next)]
  /\ UNCHANGED <<chain, head, now, storeVars, cronVars, design, coordVars>>

\* The caller takes scanRange's result.
WaveReturn ==
  /\ call.fn = "scanRange.waves" /\ call.pc = "returned"
  /\ call' = NoCall
  /\ UNCHANGED <<chain, head, now, storeVars, cronVars, design, coordVars>>

NextWave == WaveCall \/ WaveQueryOk \/ WaveQueryThrows \/ WaveEnd \/ WaveReturn

SpecWave == InitRange /\ [][NextWave]_vars

\* ------------------------------------------- getTokenHistory, step by step

\* A timestamp cache (a Map from block to seconds) as a set of pairs.
TsHas(m, b) == \E p \in m : p[1] = b

TsGet(m, b) == (CHOOSE p \in m : p[1] = b)[2]

\* m after m.set(bn, ts) for every pair of entries.
TsSetAll(m, entries) == {p \in m : ~TsHas(entries, p[1])} \cup entries

\* tsCache.get(b) ?? Math.floor(Date.now() / 1000)
TimestampOrNow(m, b, t) == IF TsHas(m, b) THEN TsGet(m, b) ELSE t \div 1000

\* The maps getCache answers to getTokenHistory: those of a scan up to the head.
HistoryCache == RunFullScan(chain, head, now, SteadyDetails, {}).eventsBlob

\* The modules are loaded: both timestamp caches are empty maps. tsCache is
\* the cache of indexer.ts, evCache the one of eventIndexer.ts; cache is
\* what getCache answered to the running call, flight holds the blocks the
\* call fetches, bg those a call that timed out left in flight.
HistoryLoad ==
  /\ call = NoCall
  /\ call' = [fn |-> "getTokenHistory", pc |-> "idle", tsCache |-> {}, evCache |-> {},
              flight |-> {}, bg |-> {}, tokenId |-> 0, cache |-> Null,
              timedOut |-> FALSE, result |-> Null]
  /\ UNCHANGED <<chain, head, now, storeVars, cronVars, design, coordVars>>

\* The answer built from the timestamp map the call ends up with.
HistoryResult(c, tokenId, m, t) ==
  GetTokenHistory(c, tokenId, [b \in 1..MaxBlock |-> TimestampOrNow(m, b, t)])

\* getTokenHistory is called for a key: it answers at once when the key has
\* no event or no block lacks a timestamp, and starts resolveTimestamps
\* otherwise.
HistoryCall ==
  /\ call.fn = "getTokenHistory" /\ call.pc = "idle"
  /\ \E tokenId \in Keys :
       LET rawEdits == HistoryCache.editsByToken[tokenId]
           rawBurns == HistoryCache.burnsByToken[tokenId]
           allBlocks == {rawEdits[i].blockNumber : i \in 1..Len(rawEdits)} \cup
                        {rawBurns[i].blockNumber : i \in 1..Len(rawBurns)}
           missing == {b \in allBlocks : ~TsHas(call.tsCache, b)}
       IN call' = [call EXCEPT
                     !.tokenId = tokenId, !.cache = HistoryCache,
                     !.timedOut = FALSE,
                     !.flight = missing,
                     !.pc = IF missing = {} THEN "returned" ELSE "resolving",
                     !.result = IF missing = {}
                                THEN HistoryResult(HistoryCache, tokenId, call.tsCache, now)
                                ELSE Null]
  /\ UNCHANGED <<chain, head, now, storeVars, cronVars, design, coordVars>>

\* resolveTimestamps settles before the overall timeout: the blocks whose
\* fetch was fulfilled (ok) enter tsCache, the others get the fallback.
HistoryResolved ==
  /\ call.fn = "getTokenHistory" /\ call.pc = "resolving"
  /\ \E ok \in SUBSET call.flight :
       LET m == TsSetAll(call.tsCache, {<<b, ChainTimestamp(b)>> : b \in ok})
       IN call' = [call EXCEPT !.tsCache = m, !.flight = {}, !.pc = "returned",
                               !.result = HistoryResult(call.cache, call.tokenId, m, now)]
  /\ UNCHANGED <<chain, head, now, storeVars, cronVars, design, coordVars>>

\* A getTokenHistory whose overall timeout is not caught: the read rejects.
HistoryTimeoutThrows ==
  /\ call.fn = "getTokenHistory" /\ call.pc = "resolving"
  /\ call' = [call EXCEPT !.bg = @ \cup call.flight, !.flight = {}, !.pc = "returned",
                          !.timedOut = TRUE, !.result = Thrown]
  /\ UNCHANGED <<chain, head, now, storeVars, cronVars, design, coordVars>>

\* The overall timeout wins the race: the catch answers with what tsCache
\* holds and the fallback; the fetches stay in flight.
HistoryTimeout ==
  /\ call.fn = "getTokenHistory" /\ call.pc = "resolving"
  /\ call' = [call EXCEPT !.bg = @ \cup call.flight, !.flight = {}, !.pc = "returned",
                          !.timedOut = TRUE,
                          !.result = HistoryResult(call.cache, call.tokenId,
                                                   call.tsCache, now)]
  /\ UNCHANGED <<chain, head, now, storeVars, cronVars, design, coordVars>>

\* The fetches a timed-out call left in flight settle.
BackgroundSettle ==
  /\ call.fn = "getTokenHistory" /\ call.bg # {}
  /\ \E ok \in SUBSET call.bg :
       call' = [call EXCEPT !.bg = {},
                            !.tsCache = TsSetAll(@, {<<b, ChainTimestamp(b)>> : b \in ok})]
  /\ UNCHANGED <<chain, head, now, storeVars, cronVars, design, coordVars>>

\* The caller takes the answer.
HistoryReturn ==
  /\ call.fn = "getTokenHistory" /\ call.pc = "returned"
  /\ call' = [call EXCEPT !.pc = "idle", !.result = Null]
  /\ UNCHANGED <<chain, head, now, storeVars, cronVars, design, coordVars>>

\* getTimestamps of eventIndexer.ts, start to end, for the blocks of a key:
\* every missing block's result, fetched (ok) or the fallback of its catch,
\* is set in the cache.
GetTimestamps ==
  /\ call.fn = "getTokenHistory" /\ call.pc = "idle"
  /\ \E blocks \in SUBSET (1..head) :
       LET missing == {b \in blocks : ~TsHas(call.evCache, b)}
       IN /\ blocks # {}
          /\ \E ok \in SUBSET missing :
               call' = [call EXCEPT
                          !.evCache = TsSetAll(@, {<<b, IF b \in ok THEN ChainTimestamp(b)
                                                        ELSE now \div 1000>> : b \in missing})]
  /\ UNCHANGED <<chain, head, now, storeVars, cronVars, design, coordVars>>

NextHistory ==
  \/ ChainAdvance
  \/ HistoryLoad
  \/ HistoryCall
  \/ HistoryResolved
  \/ HistoryTimeout
  \/ BackgroundSettle
  \/ HistoryReturn
  \/ GetTimestamps

SpecHistory == InitFull /\ [][NextHistory]_vars

\* ------------------------------------------------ the read path, scheduled

\* A started loadMemCache goes on: each of its two reads answers or throws,
\* and the .then/.catch/.finally chained to it in getCache run.
LoadSettles ==
  \E x \in Runs : LoadReadEvents(x) \/ LoadReadNormies(x) \/ LoadAdopt(x) \/ LoadFail(x)

\* A started doFullScan goes on: getBlockNumber answers or throws, the
\* scans and detail requests answer, and the .then/.finally of getCache run.
ScanSettles ==
  \E x \in Runs : ScanHead(x) \/ ScanFail(x) \/ ScanLogs(x) \/ ScanAdopt(x)

\* The read path of either coordinator over a store that no cron
\* invocation has written yet.
NextLive ==
  \/ ChainAdvance
  \/ Tick
  \/ \E r \in Readers : ReaderGetCache(r)
  \/ ReaderReturn
  \/ LoadSettles
  \/ ScanSettles

\* The read path in which no started load or scan stays pending forever.
SpecLive == Init /\ [][NextLive]_vars /\ WF_vars(LoadSettles) /\ WF_vars(ScanSettles)

\* ------------------------------------------------- claims on the scan cycles

Sorted(s) == \A i \in 1..(Len(s) - 1) : s[i].blockNumber <= s[i + 1].blockNumber

\* C6: after any merge, in a full or an incremental scan, every key's list in
\* the edit map and in the burn map is non-decreasing in blockNumber,
\* whatever the order the scanned logs arrive in.
C6_SortInvariant ==
  blobEvents # Null =>
    \A k \in Keys : Sorted(blobEvents.editsByToken[k]) /\ Sorted(blobEvents.burnsByToken[k])

NoDuplicate(s) ==
  \A i, j \in 1..Len(s) :
    (s[i].blockNumber = s[j].blockNumber /\ s[i].txHash = s[j].txHash) => i = j

\* C7: a log whose (blockNumber, txHash) a key's list already holds leaves
\* the list as it was: no key's list holds two entries with the same
\* (blockNumber, txHash), so the length-derived editCount counts each once.
C7_IdempotentMerge ==
  blobEvents # Null =>
    \A k \in Keys : NoDuplicate(blobEvents.editsByToken[k]) /\ NoDuplicate(blobEvents.burnsByToken[k])

\* The per-key maps runFullScan yields over [CANVAS_DEPLOY_BLOCK, latest];
\* they do not depend on the detail API.
FullScanMaps(h, latest) ==
  LET r == RunFullScan(h, latest, 0, [k \in Keys |-> Null], {}).eventsBlob
  IN [editsByToken |-> r.editsByToken, burnsByToken |-> r.burnsByToken]

\* C8: the maps a full scan to M followed by incremental scans to B leave
\* are the maps of one full scan to B (same keys, same sequence per key).
C8_IncrementalEqualsFull ==
  blobEvents # Null =>
    /\ blobEvents.editsByToken = FullScanMaps(chain, blobEvents.latestBlock).editsByToken
    /\ blobEvents.burnsByToken = FullScanMaps(chain, blobEvents.latestBlock).burnsByToken

\* ------------------------------------------------ claims on the cron cycles

\* The invocations that are inside runFullScan or runIncrementalScan.
CronScans == {i \in Crons : cron[i].pc \in {"called", "scanning"}}

\* C2: at most one scan (runFullScan or runIncrementalScan) is in flight in
\* any reachable state, also when two invocations of the cron handler
\* overlap; a second invocation never starts a scan of its own while one is
\* in flight.
C2_ProcessWideSingleFlight == Cardinality(CronScans) <= 1

\* The logs of key k the source holds in [from, to].
NewEvents(k, from, to) ==
  SelectSeq(GetLogs(chain, "edit", from, to) \o GetLogs(chain, "burn", from, to),
            LAMBDA l : l.tokenId = k)

\* Key k's entries in an aggregate list.
Entry(normies, k) == SelectSeq(normies, LAMBDA n : n.id = k)

StoredNormies == IF blobNormies = Null THEN <<>> ELSE blobNormies.normies

\* C9: a key that receives no new edit or burn event in an incremental scan
\* has, in the list runIncrementalScan returns, the entry it has in the
\* stored list (present iff it was present, same fields), and no detail
\* request is issued for it.
C9_TouchedSetMinimality ==
  [][\A i \in Crons :
       (cron[i].pc = "scanning" /\ cron[i].existing # Null /\ cron'[i].pc = "saving") =>
         \A k \in Keys :
           NewEvents(k, cron[i].existing.latestBlock + 1, cron[i].latest) = <<>> =>
             /\ Entry(cron'[i].result.normiesBlob.normies, k) = Entry(StoredNormies, k)
             /\ k \notin cron'[i].result.requests]_vars

\* C10: no write of the events document stores a latestBlock smaller than
\* the one stored before it, whether the cron cycles are sequential or
\* overlap.
C10_LatestBlockMonotone ==
  [][(blobEvents # Null /\ blobEvents' # Null) =>
       blobEvents'.latestBlock >= blobEvents.latestBlock]_vars

\* The chunk queries runIncrementalScan issues for each event kind: none when
\* it returns before scanRange, and none from scanRange when from > to.
IncrementalLogQueries(existing, latest) ==
  IF existing.latestBlock + 1 > latest THEN <<>>
  ELSE Chunks(existing.latestBlock + 1, latest)

\* C12: given a snapshot whose latestBlock is at or past the chain head,
\* runIncrementalScan issues no log query and returns the latestBlock, the
\* per-key maps and the aggregate list that are stored; only savedAt changes.
C12_IncrementalNoOp ==
  [][\A i \in Crons :
       (/\ cron[i].pc = "scanning" /\ cron[i].existing # Null /\ cron'[i].pc = "saving"
        /\ cron[i].existing.latestBlock >= cron[i].latest) =>
         /\ IncrementalLogQueries(cron[i].existing, cron[i].latest) = <<>>
         /\ cron'[i].result.eventsBlob.latestBlock = cron[i].existing.latestBlock
         /\ cron'[i].result.eventsBlob.editsByToken = cron[i].existing.editsByToken
         /\ cron'[i].result.eventsBlob.burnsByToken = cron[i].existing.burnsByToken
         /\ cron'[i].result.normiesBlob.normies = StoredNormies]_vars

\* ---------------------------------------------------- claims on the read path

\* The read-triggered refreshes in flight (loadMemCache or doFullScan).
InFlight ==
  Cardinality({x \in Runs : loads[x].pc # "off"}) +
  Cardinality({x \in Runs : scans[x].pc # "off"})

\* The in-memory snapshot of the coordinator in use and the time it was made.
Cur == IF design = "blob" THEN mem ELSE cache

CurAge == IF design = "blob" THEN now - mem.loadedAt ELSE now - cache.scannedAt

Fresh == Cur # Null /\ CurAge < CACHE_TTL_MS

\* C1: a getCache call that finds the cache absent or older than the TTL and
\* no refresh in flight starts one; a call that finds a refresh in flight, or
\* the cache fresh, starts none; nothing else starts one: so N such calls
\* start exactly one refresh and at most one is in flight in any reachable
\* state.
C1_ReadPathSingleFlight ==
  [][/\ InFlight <= 1 /\ InFlight' <= 1
     /\ \A r \in Readers :
          ReaderGetCache(r) =>
            InFlight' = IF Fresh THEN InFlight ELSE 1
     /\ (~ \E r \in Readers : ReaderGetCache(r)) => InFlight' <= InFlight]_vars

\* Every reader has called getCache on an absent cache and waits on the one
\* refresh in flight.
C1_Witness == (\A r \in Readers : rpc[r] = "waiting") /\ InFlight = 1

\* C3: a getCache call that finds a snapshot older than the TTL returns that
\* snapshot at once, without waiting for the refresh it starts or finds in
\* flight; what it returns is never an error, and the refresh settling later,
\* well or badly, is not waited for by any reader.
C3_StaleWhileRevalidate ==
  [][/\ \A r \in Readers :
          (ReaderGetCache(r) /\ Cur # Null /\ ~Fresh) =>
            got' = Cur /\ got' # Thrown /\ rpc' = rpc
     /\ (Cur # Null => \A r \in Readers : rpc[r] = "idle")]_vars

\* A reader holds the stale snapshot while the refresh is in flight.
C3_Witness == Cur # Null /\ ~Fresh /\ InFlight = 1 /\ got = Cur

\* A snapshot that holds data.
NonEmpty(m) ==
  m # Null /\ (m.normies # <<>> \/ \E k \in Keys : m.editsByToken[k] # <<>>)

\* loadMemCache run x ends in this step having failed: a read threw or
\* answered nothing.
LoadFailed(x) ==
  /\ loads[x].pc = "reading" /\ loads'[x].pc = "off"
  /\ \/ loads[x].ev = Pending \/ loads[x].nb = Pending
     \/ loads[x].ev = Null \/ loads[x].nb = Null

\* C4: when a non-empty snapshot exists and a refresh fails (a store read
\* errors or yields nothing, or the scan throws), the snapshot after the
\* refresh settles is the snapshot before it; an error reaches a caller only
\* when no snapshot was ever loaded.
C4_FailedRefreshKeepsData ==
  [][/\ \A x \in Runs : (LoadFailed(x) /\ NonEmpty(mem)) => mem' = mem
     /\ \A x \in Runs :
          (scans[x].pc = "called" /\ scans'[x].pc = "off" /\ NonEmpty(cache)) => cache' = cache
     /\ (got' = Thrown /\ got # Thrown) => Cur = Null]_vars

\* loadMemCache run x has both documents.
LoadDone(x) ==
  /\ loads[x].pc = "reading"
  /\ loads[x].ev # Pending /\ loads[x].nb # Pending

\* C5: the in-memory snapshot changes only when a refresh finishes, and then
\* to that refresh's whole result (maps and aggregate list of the same
\* loadMemCache or doFullScan, never anything still being built); what a
\* reader obtains is the snapshot before the step or the one after it.
C5_AtomicAdoption ==
  [][/\ mem' # mem =>
          \E x \in Runs : /\ LoadDone(x) /\ loads'[x].pc = "off"
                          /\ mem' = LoadMemCache(loads[x].ev, loads[x].nb, now)
     /\ cache' # cache =>
          \E x \in Runs : /\ scans[x].pc = "enriching" /\ scans'[x].pc = "off"
                          /\ cache'.editsByToken = scans[x].work.editsByToken
                          /\ cache'.burnsByToken = scans[x].work.burnsByToken
                          /\ cache'.latestBlock = scans[x].latest
                          /\ \A j \in 1..Len(cache'.normies) :
                               cache'.normies[j].editCount =
                                 Len(cache'.editsByToken[cache'.normies[j].id])
     /\ (got' # got /\ got' # Null /\ got' # Thrown) =>
          (got' = Cur \/ got' = Cur')]_vars

\* A reader holds the result of a refresh that replaced an earlier snapshot
\* of the populated store.
C5_Witness ==
  /\ got # Null /\ got # Thrown /\ got = Cur
  /\ got.normies # <<>> /\ got.latestBlock > CANVAS_DEPLOY_BLOCK
  /\ CurAge = 0 /\ now > 0

\* ------------------------------------------ claims on scans that lose chunks

\* Log l of the source is in the per-key maps of the events document.
Indexed(ev, l) ==
  LET list == IF l.kind = "edit" THEN ev.editsByToken[l.tokenId]
              ELSE ev.burnsByToken[l.tokenId]
  IN \E j \in 1..Len(list) :
       list[j].blockNumber = l.blockNumber /\ list[j].txHash = l.transactionHash

\* C11: in every persisted snapshot every event the source holds between the
\* deploy block and latestBlock is in the per-key maps, also after a scan in
\* which a chunk failed on every attempt.
C11_NoScanGap ==
  blobEvents # Null =>
    \A i \in 1..Len(chain) :
      chain[i].blockNumber <= blobEvents.latestBlock => Indexed(blobEvents, chain[i])

\* The chunks of the followed scanRange call that failed on every attempt,
\* by first block.
FailedChunks == {call.chunks[i][1] : i \in {j \in 1..Len(call.okc) : ~call.okc[j]}}

\* The logs of the chunks that succeeded, in chunk order.
SucceededLogs ==
  Flatten([i \in 1..Len(call.chunks) |->
             IF call.okc[i]
             THEN GetLogs(chain, call.kind, call.chunks[i][1], call.chunks[i][2])
             ELSE <<>>])

\* C13: whatever chunks fail on every attempt, scanRange goes through every
\* chunk within the attempts allowed and returns exactly the logs of the
\* chunks that succeeded, in chunk order: the failed chunks give nothing and
\* end nothing.
C13_PartialChunkFailure ==
  call.fn = "scanRange" =>
    /\ call.idx <= Len(call.chunks) + 1
    /\ call.attempt <= ChunkRetries(call.site)
    /\ call.pc = "returned" =>
         /\ Len(call.okc) = Len(call.chunks)
         /\ call.all = SucceededLogs
         /\ call.chunks # <<>> =>
              call.all = ScanRange(chain, call.kind, call.chunks[1][1],
                                   call.chunks[Len(call.chunks)][2], FailedChunks)

\* scanRange has returned the logs of one chunk after another chunk failed
\* on every attempt.
C13_Witness ==
  /\ call.fn = "scanRange" /\ call.pc = "returned"
  /\ call.all # <<>>
  /\ \E i \in 1..Len(call.okc) : ~call.okc[i]

StrictlyIncreasing(d) == \A i \in 1..(Len(d) - 1) : d[i] < d[i + 1]

\* C14: for one chunk fetchChunk issues at most 3 log queries, waits a
\* strictly increasing delay before each retry, returns the result of the
\* first query that succeeds, and returns the empty list once the third
\* attempt has failed.
C14_ChunkFetcherBound ==
  call.fn = "scanRange" =>
    /\ call.attempt + 1 <= 3
    /\ StrictlyIncreasing(call.delays)
    /\ call.last # Null =>
         /\ call.last.queries <= 3
         /\ StrictlyIncreasing(call.last.delays)
         /\ call.last.queries = Len(call.last.delays) + 1
         /\ call.last.ok =>
              call.last.result = GetLogs(chain, call.kind, call.chunks[call.idx - 1][1],
                                         call.chunks[call.idx - 1][2])
         /\ ~call.last.ok => (call.last.queries = 3 /\ call.last.result = <<>>)

\* ------------------------------------------------- claims on the enrichment

\* The Retry-After value in s, 2 when the header is absent.
HintSeconds(h) == IF h.present THEN h.value ELSE 2

\* C15: after a 429 fetchWithRetry waits at least Retry-After (2 s when the
\* header is absent) times the attempt number and retries, at most 4 times;
\* a key whose requests all got an answer within the budget is not dropped
\* for rate limiting, a key with a request whose budget ran out is dropped,
\* and fetchNormieDetails never raises.
C15_RateLimitedEnrichment ==
  call.fn = "fetchNormieDetails" =>
    /\ call.attempt <= 4
    /\ \A j \in 1..Len(call.waits) :
         call.waits[j] >= HintSeconds(call.hints[j]) * 1000 * j
    /\ call.result # Thrown
    /\ (call.pc = "returned" /\ Len(call.res) = 3 /\ call.exhausted = {}
        /\ ResOk(call.res[1]) /\ call.res[1].customized) => call.result # Null
    /\ (call.pc = "returned" /\ call.exhausted # {}) => call.result = Null

\* What one cron cycle returns from the present store when the detail API
\* answers det.
CycleResult(det) ==
  IF blobEvents = Null THEN RunFullScan(chain, head, now, det, {})
  ELSE RunIncrementalScan(blobEvents, chain, head, now, blobNormies, det, {})

\* C16: after a full or an incremental scan, a key enriched in that scan
\* whose info read was not ok or reported customized = false has no entry in
\* the resulting aggregate list, whether or not it had one before.
C16_ValidityFilter ==
  [][\A det \in [Keys -> Details] :
       (blobEvents' = CycleResult(det).eventsBlob /\ blobNormies' = CycleResult(det).normiesBlob) =>
         \A k \in CycleResult(det).requests :
           det[k] = Null => Entry(blobNormies'.normies, k) = <<>>]_vars

\* The store after scans that enriched a key twice: the key has edits in two
\* blocks and no aggregate entry.
C16_Witness ==
  /\ blobEvents # Null /\ blobNormies # Null
  /\ \E k \in Keys :
       /\ Len(blobEvents.editsByToken[k]) = 2
       /\ blobEvents.editsByToken[k][1].blockNumber < blobEvents.editsByToken[k][2].blockNumber
       /\ Entry(blobNormies.normies, k) = <<>>

\* C17: after any sequence of full and incremental scans every entry of the
\* aggregate list belongs to a key with at least one edit in the edit map
\* and has editCount >= 1; a key that only has burns has no entry.
C17_AggregateHasEdit ==
  (blobEvents # Null /\ blobNormies # Null) =>
    \A j \in 1..Len(blobNormies.normies) :
      /\ blobNormies.normies[j].editCount >= 1
      /\ blobEvents.editsByToken[blobNormies.normies[j].id] # <<>>

\* ---------------------------------------- claims on the store and the reads

\* C18: the events document and the aggregates document that a loadMemCache
\* run has read, and adopts, come from the same scan cycle: they carry the
\* same latestBlock, whatever the cron cycles write meanwhile.
C18_NoPartialWriteVisibility ==
  \A x \in Runs :
    (LoadDone(x) /\ loads[x].ev # Null /\ loads[x].nb # Null) =>
      loads[x].ev.latestBlock = loads[x].nb.latestBlock

\* C19: a cron invocation chooses the full scan only when the store holds no
\* events document (otherwise it scans incrementally from the stored
\* latestBlock + 1), and the put of a full scan's result never replaces an
\* events document that is in the store.
C19_CronModeSelection ==
  [][\A i \in Crons :
       /\ (cron[i].pc = "idle" /\ cron'[i].pc = "called") =>
            (cron'[i].existing = Null <=> blobEvents = Null)
       /\ (cron[i].pc = "saving" /\ cron[i].existing = Null
             /\ blobEvents' # blobEvents) => blobEvents = Null]_vars

\* C20: a read never writes the store. A step of a read (getCache, the
\* loadMemCache run or the scan it started, the return to the callers)
\* leaves both documents as they are, and a document appears in the empty
\* store only by the put of a cron invocation, with that invocation's result.
C20_ReadNeverWrites ==
  [][/\ (coordVars' # coordVars) => (storeVars' = storeVars)
     /\ (blobEvents = Null /\ blobEvents' # Null) =>
          \E i \in Crons : cron[i].pc = "saving" /\ blobEvents' = cron[i].result.eventsBlob
     /\ (blobNormies = Null /\ blobNormies' # Null) =>
          \E i \in Crons : cron[i].pc = "saving" /\ blobNormies' = cron[i].result.normiesBlob]_vars

\* A read ran before the first scan: the empty cache is adopted and the store
\* is still empty.
C20_Witness ==
  /\ mem # Null /\ mem.normies = <<>> /\ mem.latestBlock = CANVAS_DEPLOY_BLOCK
  /\ blobEvents = Null /\ blobNormies = Null
  /\ \A i \in Crons : cron[i].pc = "idle"

\* ------------------------------------------------- claims on the read routes

\* getUpgradedNormies on the cache getCache answered (c), in either revision.
GetUpgradedNormies(c, d, t) ==
  [normies |-> c.normies, scannedAt |-> IF d = "blob" THEN t ELSE c.scannedAt,
   latestBlock |-> c.latestBlock, fromCache |-> TRUE]

\* GET /api/upgraded, given what getCache gave the read (g): the response.
UpgradedGET(g, d, t) ==
  IF g = Thrown
  THEN [status |-> 500, body |-> [error |-> "scan failed"]]
  ELSE LET result == GetUpgradedNormies(g, d, t)
       IN [status |-> 200,
           body |-> [upgraded |-> result.normies, count |-> Len(result.normies),
                     scannedAt |-> result.scannedAt, latestBlock |-> result.latestBlock,
                     fromCache |-> result.fromCache]]

\* The responses to a read of an index that a scan of a source without
\* events has filled.
EmptyIndexResponses ==
  {UpgradedGET(LoadMemCache(RunFullScan(<<>>, h, t, SteadyDetails, {}).eventsBlob,
                            RunFullScan(<<>>, h, t, SteadyDetails, {}).normiesBlob, t),
               "blob", t) : h \in Blocks, t \in 0..MaxNow}
  \cup
  {UpgradedGET(DoFullScanEntry(DoFullScanMaps(<<>>, h, {}), h, t, SteadyDetails),
               "scan", t) : h \in Blocks, t \in 0..MaxNow}

\* A read is answered while nothing was ever indexed: the store is empty, or
\* the first load or scan failed.
NeverIndexedRead ==
  /\ got # Null
  /\ \/ got = Thrown
     \/ design = "blob" /\ blobEvents = Null /\ blobNormies = Null

\* C21: the response to a read made while nothing was ever indexed differs
\* from the response to a read of an index that is empty after a scan, and
\* from the generic failure (status 500).
C21_NeverIndexedDistinguishable ==
  NeverIndexedRead =>
    /\ UpgradedGET(got, design, now).status # 500
    /\ UpgradedGET(got, design, now) \notin EmptyIndexResponses

\* ------------------------------------------------- claims on the trigger

\* C22: a trigger request that does not carry the shared secret as
\* 'Bearer <secret>' is answered 401 and starts nothing: no snapshot read,
\* no scan, no snapshot write.
C22_TriggerAuthentication ==
  [][(cron[1].pc = "idle" /\ (call' # call \/ cron' # cron) /\ call'.fn = "GET"
        /\ ~(/\ call'.cronSecret.set /\ call'.cronSecret.value # ""
             /\ call'.authHeader.present
             /\ call'.authHeader.value = "Bearer " \o call'.cronSecret.value)) =>
       (call'.status = 401 /\ cron' = cron /\ storeVars' = storeVars)]_vars

\* ------------------------------------------------- claims on the full scan

\* The edit events the source holds for a key in [deploy block, latest].
SourceEdits(k, latest) ==
  LET logs == SelectSeq(chain, LAMBDA l : l.kind = "edit" /\ l.tokenId = k
                                          /\ CANVAS_DEPLOY_BLOCK <= l.blockNumber
                                          /\ l.blockNumber <= latest)
  IN [i \in 1..Len(logs) |-> RawEditEvent(logs[i])]

\* The edits getTokenHistory serves for a key, without their timestamps.
ServedEdits(c, k) ==
  LET edits == GetTokenHistory(c, k, [b \in Blocks |-> ChainTimestamp(b)]).edits
  IN [i \in 1..Len(edits) |-> [blockNumber |-> edits[i].blockNumber, txHash |-> edits[i].txHash]]

\* What the claim asks of a cache c filled by a full scan up to latest under
\* the detail answers det.
FullScanResultOk(c, latest, det) ==
  \A k \in Keys :
    LET served == ServedEdits(c, k)
        source == SourceEdits(k, latest)
    IN /\ Sorted(served)
       /\ \A e \in Range(served) \cup Range(source) :
            Cardinality({i \in 1..Len(served) : served[i] = e})
              = Cardinality({i \in 1..Len(source) : source[i] = e})
       /\ Cardinality({i \in 1..Len(c.normies) : c.normies[i].id = k})
            = IF source # <<>> /\ det[k] # Null THEN 1 ELSE 0

\* C23: after a full scan in which no chunk fails, getTokenHistory serves for
\* every key exactly the source's edit events of that key in [deploy block,
\* head], each once and in non-decreasing block order, and the aggregate
\* list holds exactly one entry for each key that has an edit and that the
\* detail API reports as customized, and no other entry. This holds for the
\* cron's runFullScan as loaded by loadMemCache and for doFullScan.
C23_FullScanResult ==
  [][(blobEvents = Null /\ blobEvents' # Null) =>
       \A det \in [Keys -> Details] :
         /\ blobNormies' = RunFullScan(chain, head, now, det, {}).normiesBlob =>
              FullScanResultOk(LoadMemCache(blobEvents', blobNormies', now), head, det)
         /\ FullScanResultOk(DoFullScanEntry(DoFullScanMaps(chain, head, {}), head, now, det),
                             head, det)]_vars

\* A full scan has stored a key with two edits and its aggregate entry.
C23_Witness ==
  /\ blobEvents # Null /\ blobNormies # Null
  /\ blobEvents.latestBlock = head
  /\ \E k \in Keys : /\ Len(blobEvents.editsByToken[k]) = 2
                     /\ \E i \in 1..Len(blobNormies.normies) : blobNormies.normies[i].id = k

\* -------------------------------------------- claims on the read operations

\* C24: a public read operation served from an in-memory snapshot younger
\* than the TTL completes without a read of the store and without a request
\* to the event source.
C24_FreshReadNoIO ==
  call.fn \in ReadOps => (call.storeReads = 0 /\ call.sourceRequests = 0)

\* The blocks scanEvent asks the event source for, given the head it read.
ScanEventBlocks(latest) ==
  UNION {ch[1]..ch[2] : ch \in Range(Chunks(CANVAS_DEPLOY_BLOCK, latest))}

\* C25: the refresh that a read starts on finding the in-memory snapshot
\* older than the TTL queries the event source only for blocks from the
\* snapshot's latestBlock + 1 to the head, never for a block at or below
\* latestBlock. (The blob-backed revision's refresh reads the store and
\* queries no block.)
C25_StaleRefreshIncremental ==
  [][\A x \in Runs :
       (design = "scan" /\ cache # Null
          /\ scans[x].pc = "scanning" /\ scans'[x].pc = "enriching") =>
         ScanEventBlocks(scans[x].latest) \subseteq (cache.latestBlock + 1)..scans[x].latest]_vars

\* --------------------------------------------- claims on the merge's input

\* C26: runIncrementalScan leaves the snapshot object it is given as it was:
\* after the call every per-key list of `existing` has the length and the
\* elements it had before, the lists of the keys that received new events
\* included.
C26_MergeWorksOnCopies ==
  [][(blobEvents # Null /\ blobEvents' # blobEvents) =>
       ExistingAfterIncremental(blobEvents, chain, head) = blobEvents]_vars

\* ------------------------------------------------ claims on scanRange's chunks

\* C27: for from <= to the chunks scanRange builds start at from, end at to,
\* follow one another without gap or overlap, span at most CHUNK_SIZE blocks
\* each, and cover exactly [from, to]; for from > to scanRange returns the
\* empty list and no chunk is ever fetched.
C27_ChunkPartition ==
  call.fn = "scanRange" =>
    LET c == call.chunks
        n == Len(c)
    IN IF call.from > call.to
       THEN c = <<>> /\ call.pc = "returned" /\ call.all = <<>> /\ call.last = Null
       ELSE /\ n >= 1 /\ c[1][1] = call.from /\ c[n][2] = call.to
            /\ \A i \in 1..n : c[i][1] <= c[i][2] /\ c[i][2] - c[i][1] + 1 <= CHUNK_SIZE
            /\ \A i \in 1..(n - 1) : c[i + 1][1] = c[i][2] + 1
            /\ \A i, j \in 1..n : i # j => (c[i][1]..c[i][2]) \cap (c[j][1]..c[j][2]) = {}
            /\ UNION {c[i][1]..c[i][2] : i \in 1..n} = call.from..call.to

\* scanRange has gone through a range of more than CHUNK_SIZE blocks in two
\* chunks.
C27_Witness ==
  /\ call.fn = "scanRange" /\ call.pc = "returned"
  /\ call.to - call.from + 1 > CHUNK_SIZE
  /\ Len(call.chunks) = 2 /\ Len(call.okc) = 2

\* ------------------------------------------------ claims on scanRange's waves

\* C28: within one scanRange call at most PARALLEL_CHUNKS chunk fetches are
\* in flight, a chunk is requested only when every chunk of the earlier
\* waves has settled (retries included), and the result is the chunks'
\* results concatenated in chunk order, in whatever order they settled.
C28_WaveOrdering ==
  call.fn = "scanRange.waves" =>
    /\ Cardinality(call.requested \ call.settled) <= PARALLEL_CHUNKS
    /\ \A j \in call.requested : \A e \in 1..Len(call.chunks) :
         (e - 1) \div PARALLEL_CHUNKS < (j - 1) \div PARALLEL_CHUNKS => e \in call.settled
    /\ call.pc = "returned" =>
         /\ call.settled = 1..Len(call.chunks)
         /\ call.all = Flatten([j \in 1..Len(call.chunks) |-> call.res[j]])

\* A scanRange call of two waves has returned logs of two chunks that
\* settled in the reverse of chunk order.
C28_Witness ==
  /\ call.fn = "scanRange.waves" /\ call.pc = "returned"
  /\ Len(call.chunks) > PARALLEL_CHUNKS
  /\ Len(call.all) >= 2
  /\ \E a, b \in 1..Len(call.order) : a < b /\ call.order[a] > call.order[b]

\* ------------------------------------------------ claims on the history read

\* C29: for a key with cached events getTokenHistory answers every cached
\* edit and burn of the key, in the cached order, each with a timestamp
\* (the block's, or the fallback), whether the timestamp resolution
\* succeeds, fails for some blocks or runs into the overall timeout; the
\* read never rejects.
C29_HistoryReadTotal ==
  (call.fn = "getTokenHistory" /\ call.pc = "returned") =>
    LET rawEdits == call.cache.editsByToken[call.tokenId]
        rawBurns == call.cache.burnsByToken[call.tokenId]
    IN /\ call.result # Thrown
       /\ Len(call.result.edits) = Len(rawEdits)
       /\ Len(call.result.burns) = Len(rawBurns)
       /\ \A i \in 1..Len(rawEdits) :
            /\ call.result.edits[i].blockNumber = rawEdits[i].blockNumber
            /\ call.result.edits[i].txHash = rawEdits[i].txHash
            /\ call.result.edits[i].timestamp
                 \in {ChainTimestamp(rawEdits[i].blockNumber), now \div 1000}
       /\ \A i \in 1..Len(rawBurns) :
            /\ call.result.burns[i].blockNumber = rawBurns[i].blockNumber
            /\ call.result.burns[i].txHash = rawBurns[i].txHash
            /\ call.result.burns[i].timestamp
                 \in {ChainTimestamp(rawBurns[i].blockNumber), now \div 1000}

\* A read that ran into the overall timeout has answered two edits, one
\* with its block's timestamp and one with the fallback.
C29_Witness ==
  /\ call.fn = "getTokenHistory" /\ call.pc = "returned" /\ call.timedOut
  /\ Len(call.result.edits) = 2
  /\ call.result.edits[1].timestamp = ChainTimestamp(call.result.edits[1].blockNumber)
  /\ call.result.edits[2].timestamp = now \div 1000
  /\ call.result.edits[2].blockNumber # call.result.edits[1].blockNumber

\* C30: the timestamp caches of resolveTimestamps and of getTimestamps hold
\* only fetched timestamps: a block whose fetch failed or timed out is
\* answered with the fallback and has no entry, so that it is fetched again.
C30_CacheHoldsResolved ==
  call.fn = "getTokenHistory" =>
    \A p \in call.tsCache \cup call.evCache : p[2] = ChainTimestamp(p[1])

\* C31: scanning always ends. When every started store read and scan
\* settles, a set in-flight marker (_loadPromise, _scanPromise) is
\* eventually cleared, after success and after failure alike.
C31_ScanningAlwaysEnds ==
  /\ loadPromise ~> ~loadPromise
  /\ scanPromise ~> ~scanPromise

\* A load or scan has rejected to the reader awaiting it, the marker is
\* clear again and the next read has started a new run.
C31_Witness ==
  /\ got = Thrown
  /\ \E r \in Readers : rpc[r] = "waiting"
  /\ loadPromise \/ scanPromise

\* C32: aggregate uniqueness. After any sequence of full and incremental
\* scans that starts on an empty store, the stored aggregate list holds at
\* most one entry per key id.
C32_AggregateUniqueness ==
  blobNormies # Null =>
    \A i, j \in 1..Len(blobNormies.normies) :
      blobNormies.normies[i].id = blobNormies.normies[j].id => i = j

\* A full scan has stored key 1's entry and a later incremental scan, which
\* found a burn of key 2, has kept it and added an entry for key 2.
C32_Witness ==
  /\ blobNormies # Null /\ blobEvents # Null
  /\ Len(blobNormies.normies) = 2
  /\ \E i, j \in 1..2 :
       /\ blobNormies.normies[i].id = 1 /\ blobNormies.normies[i].editCount = 1
       /\ blobNormies.normies[j].id = 2 /\ blobNormies.normies[j].editCount = 0
  /\ blobEvents.burnsByToken[2] # <<>>

====
